---- MODULE Spec2Model ----
(***************************************************************************)
(* State-machine model of the ZkSolvencyFHE contract: role / pause /       *)
(* cooldown guard, batch lifecycle, per-batch ciphertext record, decryption *)
(* request and oracle callback.  Every externally callable function is one *)
(* action; <fn>Result is the first failing check of the call ("ok" when   *)
(* none fails), and a reverting call leaves every variable unchanged.      *)
(***************************************************************************)
EXTENDS Integers, Sequences, FiniteSets, TLC

\* ------------------------------------------------------------------ bounds
\* Largest block.timestamp explored (SpecGuard).
MaxTime == 2
\* SpecGuard: largest batch id, and number of decryption requests.
MaxGuardBatch == 1
MaxGuardRequests == 1
\* SpecProtocol: largest batch id, and number of decryption requests.
MaxBatch == 2
MaxRequests == 2
\* Stand-in for type(uint256).max (checked addition overflows above it).
MaxUint == 255

\* ------------------------------------------------------- program constants
\* cooldownSeconds = 60 in the constructor.
DefaultCooldown == 60

\* ------------------------------------------------------------ input sets
Deployer == "deployer"
Addr == {"deployer", "alice"}

\* address(0): a value of type address from which no call can come.
ZeroAddress == "zero"
\* Values the newOwner argument of transferOwnership is drawn from.
NewOwners == Addr \cup {ZeroAddress}

\* A euint32 is a bytes32 handle; 0 is the uninitialized handle.
NoHandle == 0
EmptyApplication == <<NoHandle, NoHandle, NoHandle>>

Max(S) == CHOOSE x \in S : \A y \in S : y <= x
\* Keys of the two mappings that the explored runs can touch.
MaxBatchId == Max({MaxGuardBatch, MaxBatch})
MaxRequestId == Max({MaxGuardRequests, MaxRequests})
BatchIds == 1..MaxBatchId
RequestIds == 0..MaxRequestId
CooldownInputs == {0, 1, MaxUint}

\* A 32-byte word of the cleartext: <<upper 224 bits, lower 32 bits>>.
Word(v) == <<0, v>>
DirtyWord == <<1, 7>>
\* Cleartexts the oracle may deliver, as sequences of 32-byte words.
Cleartexts ==
    { <<Word(7), Word(8), Word(9)>>,
      <<Word(9), Word(8), Word(7)>>,
      <<Word(7), Word(8)>>,
      <<Word(7), Word(8), DirtyWord>>,
      <<Word(7), Word(8), Word(9), Word(1)>> }

ZeroHash == <<NoHandle, NoHandle, NoHandle, 0>>
ThisAddress == 1
ZeroContext == [batchId |-> 0, stateHash |-> ZeroHash, processed |-> FALSE]

VARIABLES
    owner, isProvider, paused, cooldownSeconds,
    lastSubmissionTime, lastDecryptionRequestTime,
    currentBatchId, batchOpen,
    loanApplications, decryptionContexts,
    now,             \* block.timestamp
    counterRequest,  \* the oracle's next request id
    requestedCts,    \* history: the handles each request was made over
    submitted,       \* history: handles of the latest LoanApplicationSubmitted event, per batch id
    batchLog,        \* history: the BatchOpened and BatchClosed events, in order
    providerEvents,  \* history: ProviderAdded minus ProviderRemoved events, per address
    completedEvents  \* history: batch ids of the DecryptionCompleted events, per request id

storage == <<owner, isProvider, paused, cooldownSeconds,
             lastSubmissionTime, lastDecryptionRequestTime,
             currentBatchId, batchOpen, loanApplications, decryptionContexts>>
history == <<requestedCts, submitted, batchLog, providerEvents, completedEvents>>
vars == <<storage, now, counterRequest, history>>

\* ---------------------------------------------------------- call outcomes
\* A revert undoes every storage write and every event of the call.
Revert == UNCHANGED vars

\* -------------------------------------------------------------- modifiers
\* Variant: every caller passes the owner check.
onlyOwner_Anyone(sender) == sender \in Addr

onlyOwner(sender) == sender = owner

onlyProvider(sender) == isProvider[sender]

\* Variant: the pause flag is not consulted.
whenNotPaused_Always == TRUE

whenNotPaused == ~paused

\* Variant: the sum is computed in unchecked arithmetic and wraps around.
CooldownCheck_Unchecked(lastTime) ==
    IF now < (lastTime + cooldownSeconds) % (MaxUint + 1) THEN "CooldownActive"
    ELSE "ok"

\* block.timestamp < lastTime + cooldownSeconds, in checked uint256 arithmetic.
CooldownCheck(lastTime) ==
    IF lastTime + cooldownSeconds > MaxUint THEN "Panic"
    ELSE IF now < lastTime + cooldownSeconds THEN "CooldownActive"
    ELSE "ok"

checkSubmissionCooldown(provider) == CooldownCheck(lastSubmissionTime[provider])

checkDecryptionCooldown(provider) == CooldownCheck(lastDecryptionRequestTime[provider])

\* ------------------------------------------------------------ constructor
Init ==
    /\ owner = Deployer
    /\ isProvider = [a \in Addr |-> FALSE]
    /\ paused = FALSE
    /\ cooldownSeconds = DefaultCooldown
    /\ lastSubmissionTime = [a \in Addr |-> 0]
    /\ lastDecryptionRequestTime = [a \in Addr |-> 0]
    /\ currentBatchId = 0
    /\ batchOpen = FALSE
    /\ loanApplications = [b \in BatchIds |-> EmptyApplication]
    /\ decryptionContexts = [r \in RequestIds |-> ZeroContext]
    /\ now \in 0..MaxTime
    /\ counterRequest = 0
    /\ requestedCts = [r \in RequestIds |-> EmptyApplication]
    /\ submitted = [b \in BatchIds |-> EmptyApplication]
    /\ batchLog = <<>>
    /\ providerEvents = [a \in Addr |-> 0]
    /\ completedEvents = [r \in RequestIds |-> <<>>]

\* ------------------------------------------------------- role management
\* Variant: the hand-over also lifts the pause.
transferOwnership_ResetsPause(sender, newOwner) ==
    IF ~onlyOwner(sender) THEN Revert
    ELSE
        /\ owner' = newOwner
        /\ paused' = FALSE
        /\ UNCHANGED <<isProvider, cooldownSeconds, lastSubmissionTime,
                       lastDecryptionRequestTime, currentBatchId, batchOpen,
                       loanApplications, decryptionContexts, now, counterRequest, history>>

transferOwnership(sender, newOwner) ==
    IF ~onlyOwner(sender) THEN Revert
    ELSE
        /\ owner' = newOwner
        /\ UNCHANGED <<isProvider, paused, cooldownSeconds, lastSubmissionTime,
                       lastDecryptionRequestTime, currentBatchId, batchOpen,
                       loanApplications, decryptionContexts, now, counterRequest, history>>

\* Variant: the event is emitted outside the if.
addProvider_AlwaysEmits(sender, provider) ==
    IF ~onlyOwner(sender) THEN Revert
    ELSE
        /\ isProvider' = IF ~isProvider[provider]
                         THEN [isProvider EXCEPT ![provider] = TRUE]
                         ELSE isProvider
        /\ providerEvents' = [providerEvents EXCEPT ![provider] = @ + 1]
        /\ UNCHANGED <<owner, paused, cooldownSeconds, lastSubmissionTime,
                       lastDecryptionRequestTime, currentBatchId, batchOpen,
                       loanApplications, decryptionContexts, now, counterRequest,
                       requestedCts, submitted, batchLog, completedEvents>>

addProvider(sender, provider) ==
    IF ~onlyOwner(sender) THEN Revert
    ELSE
        /\ isProvider' = IF ~isProvider[provider]
                         THEN [isProvider EXCEPT ![provider] = TRUE]
                         ELSE isProvider
        /\ providerEvents' = IF ~isProvider[provider]
                             THEN [providerEvents EXCEPT ![provider] = @ + 1]
                             ELSE providerEvents
        /\ UNCHANGED <<owner, paused, cooldownSeconds, lastSubmissionTime,
                       lastDecryptionRequestTime, currentBatchId, batchOpen,
                       loanApplications, decryptionContexts, now, counterRequest,
                       requestedCts, submitted, batchLog, completedEvents>>

removeProvider(sender, provider) ==
    IF ~onlyOwner(sender) THEN Revert
    ELSE
        /\ isProvider' = IF isProvider[provider]
                         THEN [isProvider EXCEPT ![provider] = FALSE]
                         ELSE isProvider
        /\ providerEvents' = IF isProvider[provider]
                             THEN [providerEvents EXCEPT ![provider] = @ - 1]
                             ELSE providerEvents
        /\ UNCHANGED <<owner, paused, cooldownSeconds, lastSubmissionTime,
                       lastDecryptionRequestTime, currentBatchId, batchOpen,
                       loanApplications, decryptionContexts, now, counterRequest,
                       requestedCts, submitted, batchLog, completedEvents>>

\* Variant: setPaused is itself guarded by the pause flag.
setPaused_WhenNotPaused(sender, p) ==
    IF ~onlyOwner(sender) \/ ~whenNotPaused THEN Revert
    ELSE
        /\ paused' = p
        /\ UNCHANGED <<owner, isProvider, cooldownSeconds, lastSubmissionTime,
                       lastDecryptionRequestTime, currentBatchId, batchOpen,
                       loanApplications, decryptionContexts, now, counterRequest, history>>

setPaused(sender, p) ==
    IF ~onlyOwner(sender) THEN Revert
    ELSE
        /\ paused' = p
        /\ UNCHANGED <<owner, isProvider, cooldownSeconds, lastSubmissionTime,
                       lastDecryptionRequestTime, currentBatchId, batchOpen,
                       loanApplications, decryptionContexts, now, counterRequest, history>>

setCooldownSeconds(sender, newCooldownSeconds) ==
    IF ~onlyOwner(sender) THEN Revert
    ELSE
        /\ cooldownSeconds' = newCooldownSeconds
        /\ UNCHANGED <<owner, isProvider, paused, lastSubmissionTime,
                       lastDecryptionRequestTime, currentBatchId, batchOpen,
                       loanApplications, decryptionContexts, now, counterRequest, history>>

\* -------------------------------------------------------- batch lifecycle
\* Variant: no check that a batch is already open.
openBatchResult_NoOpenCheck(sender) ==
    IF ~onlyOwner(sender) THEN "NotOwner"
    ELSE IF ~whenNotPaused THEN "Paused"
    ELSE "ok"

openBatchResult(sender) ==
    IF ~onlyOwner(sender) THEN "NotOwner"
    ELSE IF ~whenNotPaused THEN "Paused"
    ELSE IF batchOpen THEN "BatchAlreadyOpen"
    ELSE "ok"

\* Variant: a closed batch is opened again under its old id.
openBatch_ReopensLast(sender) ==
    IF openBatchResult(sender) # "ok" THEN Revert
    ELSE
        /\ currentBatchId' = IF currentBatchId = 0 THEN 1 ELSE currentBatchId
        /\ batchOpen' = TRUE
        /\ batchLog' = Append(batchLog, <<"BatchOpened", currentBatchId'>>)
        /\ UNCHANGED <<owner, isProvider, paused, cooldownSeconds, lastSubmissionTime,
                       lastDecryptionRequestTime, loanApplications, decryptionContexts,
                       now, counterRequest,
                       requestedCts, submitted, providerEvents, completedEvents>>

\* Variant: the batch is opened without a new id.
openBatch_NoIncrement(sender) ==
    IF openBatchResult(sender) # "ok" THEN Revert
    ELSE
        /\ batchOpen' = TRUE
        /\ batchLog' = Append(batchLog, <<"BatchOpened", currentBatchId>>)
        /\ UNCHANGED <<owner, isProvider, paused, cooldownSeconds, lastSubmissionTime,
                       lastDecryptionRequestTime, currentBatchId, loanApplications,
                       decryptionContexts, now, counterRequest,
                       requestedCts, submitted, providerEvents, completedEvents>>

openBatch(sender) ==
    IF openBatchResult(sender) # "ok" THEN Revert
    ELSE
        /\ currentBatchId' = currentBatchId + 1
        /\ batchOpen' = TRUE
        /\ batchLog' = Append(batchLog, <<"BatchOpened", currentBatchId + 1>>)
        /\ UNCHANGED <<owner, isProvider, paused, cooldownSeconds, lastSubmissionTime,
                       lastDecryptionRequestTime, loanApplications, decryptionContexts,
                       now, counterRequest,
                       requestedCts, submitted, providerEvents, completedEvents>>

\* Variant: no check that a batch is open.
closeBatchResult_NoOpenCheck(sender) ==
    IF ~onlyOwner(sender) THEN "NotOwner"
    ELSE IF ~whenNotPaused THEN "Paused"
    ELSE "ok"

closeBatchResult(sender) ==
    IF ~onlyOwner(sender) THEN "NotOwner"
    ELSE IF ~whenNotPaused THEN "Paused"
    ELSE IF ~batchOpen THEN "BatchNotOpen"
    ELSE "ok"

\* Variant: closing a batch gives its id back.
closeBatch_ReleasesId(sender) ==
    IF closeBatchResult(sender) # "ok" THEN Revert
    ELSE
        /\ batchOpen' = FALSE
        /\ currentBatchId' = currentBatchId - 1
        /\ batchLog' = Append(batchLog, <<"BatchClosed", currentBatchId>>)
        /\ UNCHANGED <<owner, isProvider, paused, cooldownSeconds, lastSubmissionTime,
                       lastDecryptionRequestTime, loanApplications,
                       decryptionContexts, now, counterRequest,
                       requestedCts, submitted, providerEvents, completedEvents>>

\* Variant: closing a batch cancels the pending requests made over it.
closeBatch_CancelsPending(sender) ==
    IF closeBatchResult(sender) # "ok" THEN Revert
    ELSE
        /\ batchOpen' = FALSE
        /\ batchLog' = Append(batchLog, <<"BatchClosed", currentBatchId>>)
        /\ decryptionContexts' =
              [r \in RequestIds |->
                  IF decryptionContexts[r].batchId = currentBatchId
                        /\ ~decryptionContexts[r].processed
                  THEN ZeroContext
                  ELSE decryptionContexts[r]]
        /\ UNCHANGED <<owner, isProvider, paused, cooldownSeconds, lastSubmissionTime,
                       lastDecryptionRequestTime, currentBatchId, loanApplications,
                       now, counterRequest,
                       requestedCts, submitted, providerEvents, completedEvents>>

closeBatch(sender) ==
    IF closeBatchResult(sender) # "ok" THEN Revert
    ELSE
        /\ batchOpen' = FALSE
        /\ batchLog' = Append(batchLog, <<"BatchClosed", currentBatchId>>)
        /\ UNCHANGED <<owner, isProvider, paused, cooldownSeconds, lastSubmissionTime,
                       lastDecryptionRequestTime, currentBatchId, loanApplications,
                       decryptionContexts, now, counterRequest,
                       requestedCts, submitted, providerEvents, completedEvents>>

\* ------------------------------------------------------------- submission
\* FHE.isInitialized: the handle is not the zero handle.
isInitialized(h) == h # NoHandle

\* Variant: the pause check runs before the role check.
submitLoanApplicationResult_PauseFirst(sender) ==
    IF ~whenNotPaused THEN "Paused"
    ELSE IF ~onlyProvider(sender) THEN "NotProvider"
    ELSE IF checkSubmissionCooldown(sender) # "ok" THEN checkSubmissionCooldown(sender)
    ELSE IF ~batchOpen THEN "BatchNotOpen"
    ELSE "ok"

\* _initIfNeeded creates a dummy ciphertext and discards it: it neither
\* reverts nor changes the value that is stored.
submitLoanApplicationResult(sender) ==
    IF ~onlyProvider(sender) THEN "NotProvider"
    ELSE IF ~whenNotPaused THEN "Paused"
    ELSE IF checkSubmissionCooldown(sender) # "ok" THEN checkSubmissionCooldown(sender)
    ELSE IF ~batchOpen THEN "BatchNotOpen"
    ELSE "ok"

\* Variant: one timestamp serves both cooldowns.
submitLoanApplication_SharedTimer(sender, app) ==
    IF submitLoanApplicationResult(sender) # "ok"
    THEN Revert
    ELSE
        /\ loanApplications' = [loanApplications EXCEPT ![currentBatchId] = app]
        /\ lastSubmissionTime' = [lastSubmissionTime EXCEPT ![sender] = now]
        /\ lastDecryptionRequestTime' = [lastDecryptionRequestTime EXCEPT ![sender] = now]
        /\ submitted' = [submitted EXCEPT ![currentBatchId] = app]
        /\ UNCHANGED <<owner, isProvider, paused, cooldownSeconds,
                       currentBatchId, batchOpen,
                       decryptionContexts, now, counterRequest,
                       requestedCts, batchLog, providerEvents, completedEvents>>

\* Variant: a record that exists is not replaced.
submitLoanApplication_KeepsFirst(sender, app) ==
    IF submitLoanApplicationResult(sender) # "ok"
    THEN Revert
    ELSE
        /\ loanApplications' =
              IF loanApplications[currentBatchId] = EmptyApplication
              THEN [loanApplications EXCEPT ![currentBatchId] = app]
              ELSE loanApplications
        /\ lastSubmissionTime' = [lastSubmissionTime EXCEPT ![sender] = now]
        /\ submitted' = [submitted EXCEPT ![currentBatchId] = app]
        /\ UNCHANGED <<owner, isProvider, paused, cooldownSeconds,
                       lastDecryptionRequestTime, currentBatchId, batchOpen,
                       decryptionContexts, now, counterRequest,
                       requestedCts, batchLog, providerEvents, completedEvents>>

submitLoanApplication(sender, app) ==
    IF submitLoanApplicationResult(sender) # "ok"
    THEN Revert
    ELSE
        /\ loanApplications' = [loanApplications EXCEPT ![currentBatchId] = app]
        /\ lastSubmissionTime' = [lastSubmissionTime EXCEPT ![sender] = now]
        /\ submitted' = [submitted EXCEPT ![currentBatchId] = app]
        /\ UNCHANGED <<owner, isProvider, paused, cooldownSeconds,
                       lastDecryptionRequestTime, currentBatchId, batchOpen,
                       decryptionContexts, now, counterRequest,
                       requestedCts, batchLog, providerEvents, completedEvents>>

\* ------------------------------------------------------ decryption request
\* Variant: the hashing loop stops one handle short.
hashCiphertexts_SkipsLast(cts) == <<cts[1], cts[2], NoHandle, ThisAddress>>

\* keccak256(abi.encode(handles, address(this))): collision resistant, so
\* modelled as the injective encoding of its input.
hashCiphertexts(cts) == <<cts[1], cts[2], cts[3], ThisAddress>>

\* Variant: only the first handle of the record must be initialized.
requestLoanApprovalResult_AssetsOnly(sender, batchId) ==
    IF ~onlyProvider(sender) THEN "NotProvider"
    ELSE IF ~whenNotPaused THEN "Paused"
    ELSE IF checkDecryptionCooldown(sender) # "ok" THEN checkDecryptionCooldown(sender)
    ELSE IF batchId = 0 \/ batchId > currentBatchId THEN "InvalidBatch"
    ELSE IF ~isInitialized(loanApplications[batchId][1])
         THEN "CiphertextNotInitialized"
    ELSE "ok"

\* Variant: only batch id 0 is out of range.
requestLoanApprovalResult_NoUpperBound(sender, batchId) ==
    IF ~onlyProvider(sender) THEN "NotProvider"
    ELSE IF ~whenNotPaused THEN "Paused"
    ELSE IF checkDecryptionCooldown(sender) # "ok" THEN checkDecryptionCooldown(sender)
    ELSE IF batchId = 0 THEN "InvalidBatch"
    ELSE IF \E i \in 1..3 : ~isInitialized(loanApplications[batchId][i])
         THEN "CiphertextNotInitialized"
    ELSE "ok"

requestLoanApprovalResult(sender, batchId) ==
    IF ~onlyProvider(sender) THEN "NotProvider"
    ELSE IF ~whenNotPaused THEN "Paused"
    ELSE IF checkDecryptionCooldown(sender) # "ok" THEN checkDecryptionCooldown(sender)
    ELSE IF batchId = 0 \/ batchId > currentBatchId THEN "InvalidBatch"
    ELSE IF \E i \in 1..3 : ~isInitialized(loanApplications[batchId][i])
         THEN "CiphertextNotInitialized"
    ELSE "ok"

\* Variant: the context is stored under the batch id, not the request id.
requestLoanApproval_KeyedByBatch(sender, batchId) ==
    IF requestLoanApprovalResult(sender, batchId) # "ok"
    THEN Revert
    ELSE
        LET app == loanApplications[batchId]
        IN  /\ decryptionContexts' =
                  [decryptionContexts EXCEPT ![batchId] =
                      [batchId |-> batchId, stateHash |-> hashCiphertexts(app),
                       processed |-> FALSE]]
            /\ lastDecryptionRequestTime' =
                  [lastDecryptionRequestTime EXCEPT ![sender] = now]
            /\ counterRequest' = counterRequest + 1
            /\ requestedCts' = [requestedCts EXCEPT ![counterRequest] = app]
            /\ UNCHANGED <<owner, isProvider, paused, cooldownSeconds, lastSubmissionTime,
                           currentBatchId, batchOpen, loanApplications, now,
                           submitted, batchLog, providerEvents, completedEvents>>

\* Variant: the oracle is called before the record is tested, and the failure
\* of that test returns instead of reverting.
requestLoanApproval_DispatchesFirst(sender, batchId) ==
    IF requestLoanApprovalResult(sender, batchId) \notin {"ok", "CiphertextNotInitialized"}
    THEN Revert
    ELSE IF requestLoanApprovalResult(sender, batchId) = "CiphertextNotInitialized"
    THEN /\ counterRequest' = counterRequest + 1
         /\ UNCHANGED <<storage, now, history>>
    ELSE
        LET requestId == counterRequest
            app == loanApplications[batchId]
        IN  /\ decryptionContexts' =
                  [decryptionContexts EXCEPT ![requestId] =
                      [batchId |-> batchId, stateHash |-> hashCiphertexts(app),
                       processed |-> FALSE]]
            /\ lastDecryptionRequestTime' =
                  [lastDecryptionRequestTime EXCEPT ![sender] = now]
            /\ counterRequest' = counterRequest + 1
            /\ requestedCts' = [requestedCts EXCEPT ![requestId] = app]
            /\ UNCHANGED <<owner, isProvider, paused, cooldownSeconds, lastSubmissionTime,
                           currentBatchId, batchOpen, loanApplications, now,
                           submitted, batchLog, providerEvents, completedEvents>>

\* FHE.requestDecryption hands out the oracle's next request id.
requestLoanApproval(sender, batchId) ==
    IF requestLoanApprovalResult(sender, batchId) # "ok"
    THEN Revert
    ELSE
        LET requestId == counterRequest
            app == loanApplications[batchId]
        IN  /\ decryptionContexts' =
                  [decryptionContexts EXCEPT ![requestId] =
                      [batchId |-> batchId, stateHash |-> hashCiphertexts(app),
                       processed |-> FALSE]]
            /\ lastDecryptionRequestTime' =
                  [lastDecryptionRequestTime EXCEPT ![sender] = now]
            /\ counterRequest' = counterRequest + 1
            /\ requestedCts' = [requestedCts EXCEPT ![requestId] = app]
            /\ UNCHANGED <<owner, isProvider, paused, cooldownSeconds, lastSubmissionTime,
                           currentBatchId, batchOpen, loanApplications, now,
                           submitted, batchLog, providerEvents, completedEvents>>

\* ---------------------------------------------------------------- callback
\* FHE.checkSignatures: the proof is the oracle's signature over exactly this
\* request id and these cleartext bytes.
checkSignatures(requestId, cleartexts, proof) == proof = <<requestId, cleartexts>>

\* cleartexts.slice(32 * (i - 1), 32) exists, and abi.decode(..., (uint32))
\* accepts the word only if its upper 224 bits are zero.
Decodable(cleartexts) ==
    /\ Len(cleartexts) >= 3
    /\ \A i \in 1..3 : cleartexts[i][1] = 0

\* abi.decode(word, (uint32)) of an accepted word: its lower 32 bits.
decode(word) == word[2]

\* The arguments of the DecryptionCompleted event of a successful callback.
DecryptionCompleted(requestId, cleartexts) ==
    <<requestId, decryptionContexts[requestId].batchId,
      decode(cleartexts[1]), decode(cleartexts[2]), decode(cleartexts[3])>>

\* Variant: a context with batch id 0 passes the range and hash checks.
myCallbackResult_ZeroBatchAllowed(requestId, cleartexts, proof) ==
    LET ctx == decryptionContexts[requestId]
        batchId == ctx.batchId
    IN  IF ctx.processed THEN "ReplayAttempt"
        ELSE IF batchId > currentBatchId THEN "InvalidBatch"
        ELSE IF batchId # 0 /\ hashCiphertexts(loanApplications[batchId]) # ctx.stateHash
             THEN "StateMismatch"
        ELSE IF ~checkSignatures(requestId, cleartexts, proof) THEN "DecryptionFailed"
        ELSE IF ~Decodable(cleartexts) THEN "DecodeError"
        ELSE "ok"

\* Variant: no replay guard.
myCallbackResult_NoReplayGuard(requestId, cleartexts, proof) ==
    LET ctx == decryptionContexts[requestId]
        batchId == ctx.batchId
    IN  IF batchId = 0 \/ batchId > currentBatchId THEN "InvalidBatch"
        ELSE IF hashCiphertexts(loanApplications[batchId]) # ctx.stateHash
             THEN "StateMismatch"
        ELSE IF ~checkSignatures(requestId, cleartexts, proof) THEN "DecryptionFailed"
        ELSE IF ~Decodable(cleartexts) THEN "DecodeError"
        ELSE "ok"

\* Variant: no state hash verification.
myCallbackResult_NoHashCheck(requestId, cleartexts, proof) ==
    LET ctx == decryptionContexts[requestId]
        batchId == ctx.batchId
    IN  IF ctx.processed THEN "ReplayAttempt"
        ELSE IF batchId = 0 \/ batchId > currentBatchId THEN "InvalidBatch"
        ELSE IF ~checkSignatures(requestId, cleartexts, proof) THEN "DecryptionFailed"
        ELSE IF ~Decodable(cleartexts) THEN "DecodeError"
        ELSE "ok"

\* Variant: results are accepted only while a batch is open.
myCallbackResult_OpenBatchOnly(requestId, cleartexts, proof) ==
    LET ctx == decryptionContexts[requestId]
        batchId == ctx.batchId
    IN  IF ctx.processed THEN "ReplayAttempt"
        ELSE IF ~batchOpen THEN "BatchNotOpen"
        ELSE IF batchId = 0 \/ batchId > currentBatchId THEN "InvalidBatch"
        ELSE IF hashCiphertexts(loanApplications[batchId]) # ctx.stateHash
             THEN "StateMismatch"
        ELSE IF ~checkSignatures(requestId, cleartexts, proof) THEN "DecryptionFailed"
        ELSE IF ~Decodable(cleartexts) THEN "DecodeError"
        ELSE "ok"

\* Variant: the context must belong to the batch that is current.
myCallbackResult_CurrentBatchOnly(requestId, cleartexts, proof) ==
    LET ctx == decryptionContexts[requestId]
        batchId == ctx.batchId
    IN  IF ctx.processed THEN "ReplayAttempt"
        ELSE IF batchId = 0 \/ batchId # currentBatchId THEN "InvalidBatch"
        ELSE IF hashCiphertexts(loanApplications[batchId]) # ctx.stateHash
             THEN "StateMismatch"
        ELSE IF ~checkSignatures(requestId, cleartexts, proof) THEN "DecryptionFailed"
        ELSE IF ~Decodable(cleartexts) THEN "DecodeError"
        ELSE "ok"

myCallbackResult(requestId, cleartexts, proof) ==
    LET ctx == decryptionContexts[requestId]
        batchId == ctx.batchId
    IN  IF ctx.processed THEN "ReplayAttempt"
        ELSE IF batchId = 0 \/ batchId > currentBatchId THEN "InvalidBatch"
        ELSE IF hashCiphertexts(loanApplications[batchId]) # ctx.stateHash
             THEN "StateMismatch"
        ELSE IF ~checkSignatures(requestId, cleartexts, proof) THEN "DecryptionFailed"
        ELSE IF ~Decodable(cleartexts) THEN "DecodeError"
        ELSE "ok"

\* Variant: the context is marked processed before the proof is verified, and
\* a bad proof returns instead of reverting.
myCallback_ConsumesOnFailure(sender, requestId, cleartexts, proof) ==
    IF myCallbackResult(requestId, cleartexts, proof) \notin {"ok", "DecryptionFailed"}
    THEN Revert
    ELSE
        /\ decryptionContexts' = [decryptionContexts EXCEPT ![requestId].processed = TRUE]
        /\ completedEvents' =
              IF myCallbackResult(requestId, cleartexts, proof) = "ok"
              THEN [completedEvents EXCEPT
                       ![requestId] = Append(@, decryptionContexts[requestId].batchId)]
              ELSE completedEvents
        /\ UNCHANGED <<owner, isProvider, paused, cooldownSeconds, lastSubmissionTime,
                       lastDecryptionRequestTime, currentBatchId, batchOpen,
                       loanApplications, now, counterRequest, requestedCts, submitted, batchLog,
                       providerEvents>>

\* Variant: a successful callback resolves every context of the batch.
myCallback_ResolvesBatch(sender, requestId, cleartexts, proof) ==
    IF myCallbackResult(requestId, cleartexts, proof) # "ok"
    THEN Revert
    ELSE
        /\ decryptionContexts' =
              [r \in RequestIds |->
                  IF decryptionContexts[r].batchId = decryptionContexts[requestId].batchId
                  THEN [decryptionContexts[r] EXCEPT !.processed = TRUE]
                  ELSE decryptionContexts[r]]
        /\ completedEvents' =
              [completedEvents EXCEPT
                  ![requestId] = Append(@, decryptionContexts[requestId].batchId)]
        /\ UNCHANGED <<owner, isProvider, paused, cooldownSeconds, lastSubmissionTime,
                       lastDecryptionRequestTime, currentBatchId, batchOpen,
                       loanApplications, now, counterRequest, requestedCts, submitted, batchLog,
                       providerEvents>>

\* Variant: only a provider may deliver the result.
myCallback_ProviderOnly(sender, requestId, cleartexts, proof) ==
    IF ~onlyProvider(sender) \/ myCallbackResult(requestId, cleartexts, proof) # "ok"
    THEN Revert
    ELSE
        /\ decryptionContexts' = [decryptionContexts EXCEPT ![requestId].processed = TRUE]
        /\ completedEvents' =
              [completedEvents EXCEPT
                  ![requestId] = Append(@, decryptionContexts[requestId].batchId)]
        /\ UNCHANGED <<owner, isProvider, paused, cooldownSeconds, lastSubmissionTime,
                       lastDecryptionRequestTime, currentBatchId, batchOpen,
                       loanApplications, now, counterRequest, requestedCts, submitted, batchLog,
                       providerEvents>>

\* Variant: the decoded values are written into the record of the batch.
myCallback_StoresResult(sender, requestId, cleartexts, proof) ==
    IF myCallbackResult(requestId, cleartexts, proof) # "ok"
    THEN Revert
    ELSE
        /\ decryptionContexts' = [decryptionContexts EXCEPT ![requestId].processed = TRUE]
        /\ loanApplications' =
              [loanApplications EXCEPT
                  ![decryptionContexts[requestId].batchId] =
                      <<decode(cleartexts[1]), decode(cleartexts[2]), decode(cleartexts[3])>>]
        /\ completedEvents' =
              [completedEvents EXCEPT
                  ![requestId] = Append(@, decryptionContexts[requestId].batchId)]
        /\ UNCHANGED <<owner, isProvider, paused, cooldownSeconds, lastSubmissionTime,
                       lastDecryptionRequestTime, currentBatchId, batchOpen,
                       now, counterRequest, requestedCts, submitted, batchLog,
                       providerEvents>>

myCallback(sender, requestId, cleartexts, proof) ==
    IF myCallbackResult(requestId, cleartexts, proof) # "ok"
    THEN Revert
    ELSE
        /\ decryptionContexts' = [decryptionContexts EXCEPT ![requestId].processed = TRUE]
        /\ completedEvents' =
              [completedEvents EXCEPT
                  ![requestId] = Append(@, decryptionContexts[requestId].batchId)]
        /\ UNCHANGED <<owner, isProvider, paused, cooldownSeconds, lastSubmissionTime,
                       lastDecryptionRequestTime, currentBatchId, batchOpen,
                       loanApplications, now, counterRequest, requestedCts, submitted, batchLog,
                       providerEvents>>

\* ---------------------------------------------------------- block time
Tick ==
    /\ now < MaxTime
    /\ now' = now + 1
    /\ UNCHANGED <<storage, counterRequest, history>>

\* ------------------------------------------------------- specifications
\* Proofs delivered with a callback for (r, c): the oracle's signature over
\* (r, c), and one made over another request id.
ProofInputs(r, c) == {<<r, c>>, <<(r + 1) % (MaxRequestId + 1), c>>}

\* Handles submitted: two complete applications that differ in one handle.
Applications == {<<1, 1, 1>>, <<1, 1, 2>>}

\* SpecGuard: ownership, roles, pause, cooldown and block time in full,
\* around one batch and one decryption request.
NextGuard ==
    \/ \E s \in Addr, a \in Addr : transferOwnership(s, a)
    \/ \E s \in Addr, a \in Addr : addProvider(s, a)
    \/ \E s \in Addr, a \in Addr : removeProvider(s, a)
    \/ \E s \in Addr, p \in BOOLEAN : setPaused(s, p)
    \/ \E s \in Addr, n \in CooldownInputs : setCooldownSeconds(s, n)
    \/ \E s \in Addr : currentBatchId < MaxGuardBatch /\ openBatch(s)
    \/ \E s \in Addr : closeBatch(s)
    \/ \E s \in Addr : submitLoanApplication(s, <<1, 1, 1>>)
    \/ \E s \in Addr, b \in 0..(MaxGuardBatch + 1) :
          counterRequest < MaxGuardRequests /\ requestLoanApproval(s, b)
    \/ Tick

SpecGuard == Init /\ [][NextGuard]_vars

\* SpecProtocol: the contract is deployed at time 0 and the owner may switch
\* the cooldown off; several batches and several decryption requests in
\* flight, every callback input, and alice as the address whose provider
\* role is granted and revoked.
InitProtocol == Init /\ now = 0

NextProtocol ==
    \/ \E s \in Addr : addProvider(s, "alice")
    \/ \E s \in Addr : removeProvider(s, "alice")
    \/ \E s \in Addr, p \in BOOLEAN : setPaused(s, p)
    \/ \E s \in Addr : setCooldownSeconds(s, 0)
    \/ \E s \in Addr : currentBatchId < MaxBatch /\ openBatch(s)
    \/ \E s \in Addr : closeBatch(s)
    \/ \E s \in Addr, app \in Applications : submitLoanApplication(s, app)
    \/ \E s \in Addr, b \in 0..(MaxBatch + 1) :
          counterRequest < MaxRequests /\ requestLoanApproval(s, b)
    \/ \E s \in Addr, r \in 0..MaxRequests, c \in Cleartexts :
          \E p \in ProofInputs(r, c) : myCallback(s, r, c, p)

SpecProtocol == InitProtocol /\ [][NextProtocol]_vars

\* Handles submitted in SpecRecords: two complete applications, and one whose
\* second handle is uninitialized.
RecordApplications == {<<1, 1, 1>>, <<1, 1, 2>>, <<1, NoHandle, 1>>}

\* SpecRecords: the records of several batches, written by two providers
\* with complete and incomplete applications, and requested for decryption.
NextRecords ==
    \/ \E s \in Addr, a \in Addr : addProvider(s, a)
    \/ \E s \in Addr : setCooldownSeconds(s, 0)
    \/ \E s \in Addr : currentBatchId < MaxBatch /\ openBatch(s)
    \/ \E s \in Addr : closeBatch(s)
    \/ \E s \in Addr, app \in RecordApplications : submitLoanApplication(s, app)
    \/ \E s \in Addr, b \in 0..MaxBatch :
          counterRequest < MaxGuardRequests /\ requestLoanApproval(s, b)

SpecRecords == InitProtocol /\ [][NextRecords]_vars

\* SpecOperations: every external function, at time 0, around one batch and
\* one decryption request.
NextOperations ==
    \/ \E s \in Addr, a \in Addr : transferOwnership(s, a)
    \/ \E s \in Addr, a \in Addr : addProvider(s, a)
    \/ \E s \in Addr, a \in Addr : removeProvider(s, a)
    \/ \E s \in Addr, p \in BOOLEAN : setPaused(s, p)
    \/ \E s \in Addr : setCooldownSeconds(s, 0)
    \/ \E s \in Addr : currentBatchId < MaxGuardBatch /\ openBatch(s)
    \/ \E s \in Addr : closeBatch(s)
    \/ \E s \in Addr, app \in Applications : submitLoanApplication(s, app)
    \/ \E s \in Addr, b \in 0..MaxGuardBatch :
          counterRequest < MaxGuardRequests /\ requestLoanApproval(s, b)
    \/ \E s \in Addr, r \in 0..MaxGuardRequests, c \in Cleartexts :
          \E p \in ProofInputs(r, c) : myCallback(s, r, c, p)

SpecOperations == InitProtocol /\ [][NextOperations]_vars

\* SpecConcurrent: two providers, block time and a cooldown of one second,
\* around one batch and several decryption requests in flight.
NextConcurrent ==
    \/ \E s \in Addr, a \in Addr : addProvider(s, a)
    \/ \E s \in Addr : setCooldownSeconds(s, 1)
    \/ \E s \in Addr : currentBatchId < MaxGuardBatch /\ openBatch(s)
    \/ \E s \in Addr, app \in Applications : submitLoanApplication(s, app)
    \/ \E s \in Addr, b \in 0..MaxGuardBatch :
          counterRequest < MaxRequests /\ requestLoanApproval(s, b)
    \/ \E s \in Addr, r \in 0..MaxRequests, c \in Cleartexts :
          \E p \in ProofInputs(r, c) : myCallback(s, r, c, p)
    \/ Tick

SpecConcurrent == InitProtocol /\ [][NextConcurrent]_vars

\* SpecOwnership: hand-over of ownership to either caller and to the zero
\* address, at time 0, around one batch and one decryption request.
NextOwnership ==
    \/ \E s \in Addr, n \in NewOwners : transferOwnership(s, n)
    \/ \E s \in Addr, a \in Addr : addProvider(s, a)
    \/ \E s \in Addr, a \in Addr : removeProvider(s, a)
    \/ \E s \in Addr, p \in BOOLEAN : setPaused(s, p)
    \/ \E s \in Addr : setCooldownSeconds(s, 0)
    \/ \E s \in Addr : currentBatchId < MaxGuardBatch /\ openBatch(s)
    \/ \E s \in Addr : closeBatch(s)
    \/ \E s \in Addr : submitLoanApplication(s, <<1, 1, 1>>)
    \/ \E s \in Addr, b \in 0..MaxGuardBatch :
          counterRequest < MaxGuardRequests /\ requestLoanApproval(s, b)

SpecOwnership == InitProtocol /\ [][NextOwnership]_vars

\* ------------------------------------------------------------------ claims
\* Request ids the oracle has handed out.
Issued(r) == r < counterRequest
\* A context that exists and has not been processed.
Pending(r) == Issued(r) /\ ~decryptionContexts[r].processed
\* The record a context refers to.
RecordOf(r) == loanApplications[decryptionContexts[r].batchId]

GoodCleartext == <<Word(7), Word(8), Word(9)>>
ShortCleartext == <<Word(7), Word(8)>>
\* Exactly three words (96 bytes), each a uint32.
WellFormed(c) == Len(c) = 3 /\ \A i \in 1..3 : c[i][1] = 0
WellFormedCleartexts == {c \in Cleartexts : WellFormed(c)}
\* A proof made over another request id.
ForeignProof(r, c) == <<(r + 1) % (MaxRequestId + 1), c>>

\* SpecPending: one decryption request and everything that can happen while
\* it is pending: block time, pause, loss of the provider role, the closing
\* of its batch, later batches, submissions and callbacks.
NextPending ==
    \/ \E s \in Addr : addProvider(s, "alice")
    \/ \E s \in Addr : removeProvider(s, "alice")
    \/ \E s \in Addr, p \in BOOLEAN : setPaused(s, p)
    \/ \E s \in Addr : setCooldownSeconds(s, 0)
    \/ \E s \in Addr : currentBatchId < MaxBatch /\ openBatch(s)
    \/ \E s \in Addr : closeBatch(s)
    \/ \E s \in Addr : submitLoanApplication(s, <<1, 1, 1>>)
    \/ \E s \in Addr, b \in 0..MaxBatch :
          counterRequest < MaxGuardRequests /\ requestLoanApproval(s, b)
    \/ \E s \in Addr, r \in 0..MaxGuardRequests, c \in {GoodCleartext, ShortCleartext} :
          \E p \in ProofInputs(r, c) : myCallback(s, r, c, p)
    \/ Tick

SpecPending == InitProtocol /\ [][NextPending]_vars

\* The oracle delivers the result of request r: a callback with a well-formed
\* cleartext and the proof made over r and that cleartext, from any address.
Deliver(r) ==
    \E s \in Addr, c \in WellFormedCleartexts : myCallback(s, r, c, <<r, c>>)

\* SpecLive: batches, submissions that replace handles, decryption requests
\* and callbacks with every input, under pause and role changes; the oracle
\* is fair: a delivery that stays possible is eventually made.
NextLive ==
    \/ \E s \in Addr : addProvider(s, "alice")
    \/ \E s \in Addr : removeProvider(s, "alice")
    \/ \E s \in Addr, p \in BOOLEAN : setPaused(s, p)
    \/ \E s \in Addr : setCooldownSeconds(s, 0)
    \/ \E s \in Addr : currentBatchId < MaxBatch /\ openBatch(s)
    \/ \E s \in Addr : closeBatch(s)
    \/ \E s \in Addr, app \in Applications : submitLoanApplication(s, app)
    \/ \E s \in Addr, b \in 0..MaxBatch :
          counterRequest < MaxGuardRequests /\ requestLoanApproval(s, b)
    \/ \E s \in Addr, r \in 0..MaxGuardRequests, c \in Cleartexts :
          \E p \in ProofInputs(r, c) : myCallback(s, r, c, p)

SpecLive ==
    /\ InitProtocol
    /\ [][NextLive]_vars
    /\ \A r \in RequestIds : WF_vars(Deliver(r))

\* C1 -- Commitment binding: while a context is pending and the record of its
\* batch does not hold the three handles it held when the request was made,
\* myCallback for that request id fails with StateMismatch whatever the
\* cleartext and the proof, no step marks the context processed and no step
\* emits a completion event for it.
C1_CommitmentBinding ==
    [][\A r \in RequestIds :
          (Pending(r) /\ RecordOf(r) # requestedCts[r])
          => /\ \A c \in Cleartexts : \A p \in ProofInputs(r, c) :
                   myCallbackResult(r, c, p) = "StateMismatch"
             /\ ~decryptionContexts'[r].processed
             /\ completedEvents'[r] = completedEvents[r]]_vars

\* A pending request whose record was overwritten with other handles, and a
\* callback with a valid proof over a well-formed cleartext failing on it.
C1_Witness ==
    \E r \in RequestIds :
        /\ Pending(r)
        /\ requestedCts[r] = <<1, 1, 1>>
        /\ RecordOf(r) = <<1, 1, 2>>
        /\ myCallbackResult(r, GoodCleartext, <<r, GoodCleartext>>) = "StateMismatch"

\* C2 -- Exactly-once delivery: for each request id at most one completion
\* event is ever emitted, the context is processed exactly when that event
\* exists, and once it is processed every myCallback for the request id fails
\* with ReplayAttempt, whatever the cleartext, the proof and the record.
C2_ExactlyOnce ==
    \A r \in RequestIds :
        /\ Len(completedEvents[r]) <= 1
        /\ decryptionContexts[r].processed <=> Len(completedEvents[r]) = 1
        /\ decryptionContexts[r].processed
           => \A c \in Cleartexts : \A p \in ProofInputs(r, c) :
                 myCallbackResult(r, c, p) = "ReplayAttempt"

\* A processed request whose record has since been overwritten: the valid
\* payload is refused as a replay.
C2_Witness ==
    \E r \in RequestIds :
        /\ decryptionContexts[r].processed
        /\ Len(completedEvents[r]) = 1
        /\ RecordOf(r) # requestedCts[r]
        /\ myCallbackResult(r, GoodCleartext, <<r, GoodCleartext>>) = "ReplayAttempt"

\* C3 -- Successful resolution: while a context is pending and the record of
\* its batch holds the handles it held at request time, myCallback with the
\* oracle's proof over a well-formed 96-byte cleartext succeeds; the step sets
\* processed and emits exactly one completion event with the context's batch
\* id, whatever batches were opened or closed and whatever roles changed
\* since the request.
C3_SuccessfulResolution ==
    [][\A r \in RequestIds :
          (Pending(r) /\ RecordOf(r) = requestedCts[r])
          => \A c \in WellFormedCleartexts :
                /\ myCallbackResult(r, c, <<r, c>>) = "ok"
                /\ decryptionContexts'[r] # decryptionContexts[r]
                   => \A s \in Addr :
                         myCallback(s, r, c, <<r, c>>)
                         => /\ decryptionContexts'[r].processed
                            /\ completedEvents'[r] =
                                  <<decryptionContexts[r].batchId>>]_vars

\* A pending request for batch 1 that can be resolved although batch 2 has
\* been opened, filled and closed, the requester has lost the provider role
\* and the contract is paused.
C3_Witness ==
    \E r \in RequestIds :
        /\ Pending(r)
        /\ decryptionContexts[r].batchId = 1
        /\ currentBatchId = 2
        /\ ~batchOpen
        /\ loanApplications[2] # EmptyApplication
        /\ RecordOf(r) = requestedCts[r]
        /\ ~isProvider["alice"]
        /\ paused
        /\ myCallbackResult(r, GoodCleartext, <<r, GoodCleartext>>) = "ok"

\* C4 (as stated) -- after any successful submitLoanApplication into the batch
\* of a pending context, myCallback for that context fails with StateMismatch.
C4_AnyOverwriteMismatches ==
    [][\A r \in RequestIds :
          (Pending(r) /\ decryptionContexts[r].batchId = currentBatchId
                      /\ loanApplications' # loanApplications)
          => \A s \in Addr, app \in Applications :
                (submitLoanApplicationResult(s) = "ok" /\ submitLoanApplication(s, app))
                => (\A c \in Cleartexts : \A p \in ProofInputs(r, c) :
                       myCallbackResult(r, c, p) = "StateMismatch")']_vars

\* C4 -- Overwrite between request and callback: after a successful
\* submitLoanApplication into the batch of a pending context, myCallback for
\* that context fails with StateMismatch exactly when the handles now stored
\* differ from the handles stored when the request was made; a submission that
\* stores the same three handles again does not make the callback fail, and a
\* callback succeeds only on a record equal to the one at request time.
C4_OverwriteMismatches ==
    [][\A r \in RequestIds :
          (Pending(r) /\ decryptionContexts[r].batchId = currentBatchId
                      /\ loanApplications' # loanApplications)
          => \A s \in Addr, app \in Applications :
                (submitLoanApplicationResult(s) = "ok" /\ submitLoanApplication(s, app))
                => (\A c \in Cleartexts : \A p \in ProofInputs(r, c) :
                       /\ myCallbackResult(r, c, p) = "StateMismatch"
                          <=> app # requestedCts[r]
                       /\ myCallbackResult(r, c, p) = "ok"
                          => RecordOf(r) = requestedCts[r])']_vars

\* Two requests over the same batch, made over different handles: a
\* submission lies between them, the callback of the earlier request fails
\* and the callback of the later one succeeds.
C4_Witness ==
    /\ Pending(0)
    /\ Pending(1)
    /\ decryptionContexts[0].batchId = decryptionContexts[1].batchId
    /\ requestedCts[0] # requestedCts[1]
    /\ myCallbackResult(0, GoodCleartext, <<0, GoodCleartext>>) = "StateMismatch"
    /\ myCallbackResult(1, GoodCleartext, <<1, GoodCleartext>>) = "ok"

\* C5 -- Failed callbacks do not consume the request: a myCallback step that
\* changes a context or emits a completion event for it is a successful one,
\* so a failing invocation (StateMismatch, DecryptionFailed, malformed
\* cleartext) leaves the context pending with its batch id and hash; and a
\* pending context over an unchanged record still accepts the valid payload.
C5_FailureKeepsPending ==
    [][\A r \in RequestIds :
          /\ (decryptionContexts'[r] # decryptionContexts[r]
                 \/ completedEvents'[r] # completedEvents[r])
             => \A s \in Addr, c \in Cleartexts : \A p \in ProofInputs(r, c) :
                   myCallback(s, r, c, p) => myCallbackResult(r, c, p) = "ok"
          /\ (Pending(r) /\ RecordOf(r) = requestedCts[r])
             => myCallbackResult(r, GoodCleartext, <<r, GoodCleartext>>) = "ok"]_vars

\* A pending request on which a foreign proof, a short cleartext and a
\* non-uint32 word each fail while the valid payload is still accepted.
C5_Witness ==
    \E r \in RequestIds :
        /\ Pending(r)
        /\ myCallbackResult(r, GoodCleartext, ForeignProof(r, GoodCleartext)) = "DecryptionFailed"
        /\ myCallbackResult(r, ShortCleartext, <<r, ShortCleartext>>) = "DecodeError"
        /\ myCallbackResult(r, <<Word(7), Word(8), DirtyWord>>,
                            <<r, <<Word(7), Word(8), DirtyWord>>>>) = "DecodeError"
        /\ myCallbackResult(r, GoodCleartext, <<r, GoodCleartext>>) = "ok"

\* C6 -- Decryption context lifecycle: every issued request id has a context;
\* no step changes its batch id or its hash or deletes it, processed never
\* goes back to false, and it becomes true only in a successful myCallback
\* step for that request id.
C6_ContextLifecycle ==
    [][\A r \in RequestIds :
          Issued(r)
          => /\ decryptionContexts[r].batchId \in 1..currentBatchId
             /\ decryptionContexts'[r].batchId = decryptionContexts[r].batchId
             /\ decryptionContexts'[r].stateHash = decryptionContexts[r].stateHash
             /\ decryptionContexts[r].processed => decryptionContexts'[r].processed
             /\ decryptionContexts'[r].processed # decryptionContexts[r].processed
                => \E s \in Addr, c \in Cleartexts : \E p \in ProofInputs(r, c) :
                      /\ myCallbackResult(r, c, p) = "ok"
                      /\ myCallback(s, r, c, p)]_vars

\* A processed context and a later, still pending one for the same batch.
C6_Witness ==
    /\ Issued(0)
    /\ decryptionContexts[0].processed
    /\ Pending(1)
    /\ decryptionContexts[1].batchId = decryptionContexts[0].batchId
    /\ decryptionContexts[1].stateHash # decryptionContexts[0].stateHash

\* The cooldown of the specification: now - lastSubmissionTime[a] >= cooldownSeconds.
SubmissionCooldownElapsed(a) == now - lastSubmissionTime[a] >= cooldownSeconds

\* C7 -- Submission gating: submitLoanApplication by a succeeds exactly when a
\* batch is open, a is a provider, the contract is not paused and
\* now - lastSubmissionTime[a] >= cooldownSeconds; otherwise it fails with the
\* error of a condition that does not hold (NotProvider, Paused,
\* CooldownActive, BatchNotOpen).
C7_SubmissionGating ==
    \A a \in Addr :
        /\ submitLoanApplicationResult(a) = "ok"
           <=> (batchOpen /\ isProvider[a] /\ ~paused /\ SubmissionCooldownElapsed(a))
        /\ submitLoanApplicationResult(a) # "ok"
           => submitLoanApplicationResult(a) \in
                 {e \in {"NotProvider", "Paused", "CooldownActive", "BatchNotOpen"} :
                     \/ e = "NotProvider" /\ ~isProvider[a]
                     \/ e = "Paused" /\ paused
                     \/ e = "CooldownActive" /\ ~SubmissionCooldownElapsed(a)
                     \/ e = "BatchNotOpen" /\ ~batchOpen}

\* C8 -- Monotonic batch ids: every step that opens a batch gives it the id
\* currentBatchId + 1, and currentBatchId changes in no other step: a step
\* that changes it is a successful openBatch and raises it by one.
C8_MonotonicBatchIds ==
    [][/\ (~batchOpen /\ batchOpen') => currentBatchId' = currentBatchId + 1
       /\ currentBatchId' # currentBatchId
          => /\ currentBatchId' = currentBatchId + 1
             /\ \E s \in Addr : openBatchResult(s) = "ok" /\ openBatch(s)]_vars

\* Two batches opened and closed in turn.
C8_Witness == currentBatchId = 2 /\ ~batchOpen

\* C9 (as stated) -- openBatch by the owner while a batch is open always fails
\* with BatchAlreadyOpen, closeBatch (here: by the owner) while no batch is
\* open always fails with BatchNotOpen, and the batch state changes only
\* Closed -> Open by openBatch and Open -> Closed by closeBatch.
C9_AlwaysLifecycleError ==
    [][/\ batchOpen => openBatchResult(owner) = "BatchAlreadyOpen"
       /\ ~batchOpen => closeBatchResult(owner) = "BatchNotOpen"
       /\ (batchOpen /\ batchOpen') => currentBatchId' = currentBatchId
       /\ (~batchOpen /\ batchOpen') => \E s \in Addr : openBatch(s)
       /\ (batchOpen /\ ~batchOpen') => \E s \in Addr : closeBatch(s)]_vars

\* C9 -- Batch lifecycle transitions: openBatch while a batch is open and
\* closeBatch while none is open always fail and change nothing; the error is
\* BatchAlreadyOpen, respectively BatchNotOpen, exactly when the caller is the
\* owner and the contract is not paused, NotOwner for another caller, and
\* Paused for the owner of a paused contract.  The batch state starts Closed
\* and changes only Closed -> Open by openBatch and Open -> Closed by
\* closeBatch.
C9_LifecycleTransitions ==
    [][/\ batchOpen
          => \A s \in Addr :
                openBatchResult(s) = IF s # owner THEN "NotOwner"
                                     ELSE IF paused THEN "Paused"
                                     ELSE "BatchAlreadyOpen"
       /\ ~batchOpen
          => \A s \in Addr :
                closeBatchResult(s) = IF s # owner THEN "NotOwner"
                                      ELSE IF paused THEN "Paused"
                                      ELSE "BatchNotOpen"
       /\ currentBatchId = 0 => ~batchOpen
       /\ (batchOpen /\ batchOpen') => currentBatchId' = currentBatchId
       /\ (~batchOpen /\ batchOpen') => \E s \in Addr : openBatch(s)
       /\ (batchOpen /\ ~batchOpen') => \E s \in Addr : closeBatch(s)]_vars

\* A batch is open and the contract is paused, under an owner other than the
\* deployer: the owner's openBatch fails with Paused.
C9_Witness ==
    /\ batchOpen
    /\ paused
    /\ owner = "alice"
    /\ openBatchResult(owner) = "Paused"
    /\ openBatchResult(Deployer) = "NotOwner"

\* C10 -- Cooldown independence: a successful submitLoanApplication by a sets
\* lastSubmissionTime[a] to now and leaves every other submission time and
\* every decryption-request time unchanged, so the decryption cooldown of a
\* is as before; a successful requestLoanApproval by a sets
\* lastDecryptionRequestTime[a] to now and leaves every submission time
\* unchanged, so the submission cooldown of a is as before.
C10_CooldownIndependence ==
    [][\A a \in Addr :
          /\ (submitLoanApplicationResult(a) = "ok"
                /\ submitLoanApplication(a, <<1, 1, 1>>))
             => /\ lastSubmissionTime' = [lastSubmissionTime EXCEPT ![a] = now]
                /\ lastDecryptionRequestTime' = lastDecryptionRequestTime
                /\ checkDecryptionCooldown(a)' = checkDecryptionCooldown(a)
          /\ \A b \in BatchIds :
                (requestLoanApprovalResult(a, b) = "ok" /\ requestLoanApproval(a, b))
                => /\ lastDecryptionRequestTime' =
                         [lastDecryptionRequestTime EXCEPT ![a] = now]
                   /\ lastSubmissionTime' = lastSubmissionTime
                   /\ checkSubmissionCooldown(a)' = checkSubmissionCooldown(a)]_vars

\* An address that submitted at time 1 and requested a decryption at time 2
\* under a cooldown of one second: its submission cooldown has elapsed while
\* its decryption cooldown is running.
C10_Witness ==
    \E a \in Addr :
        /\ cooldownSeconds = 1
        /\ now = 2
        /\ lastSubmissionTime[a] = 1
        /\ lastDecryptionRequestTime[a] = 2
        /\ checkSubmissionCooldown(a) = "ok"
        /\ checkDecryptionCooldown(a) = "CooldownActive"

\* The decryption cooldown of the specification, for a provider whose last
\* successful request was made at lastDecryptionRequestTime[a] >= 1.
RequestedWithinCooldown(a) ==
    /\ counterRequest > 0
    /\ lastDecryptionRequestTime[a] >= 1
    /\ now - lastDecryptionRequestTime[a] < cooldownSeconds

\* C11 -- Request rate limiting: after a successful requestLoanApproval by
\* provider a at time t, a requestLoanApproval by a at a time t' with
\* t' - t < cooldownSeconds fails with CooldownActive for every batch id, as
\* long as a is a provider and the contract is not paused.
C11_RequestRateLimiting ==
    \A a \in Addr, b \in 0..MaxBatchId :
        (isProvider[a] /\ ~paused /\ RequestedWithinCooldown(a))
        => requestLoanApprovalResult(a, b) = "CooldownActive"

\* C12 -- Batch id range check: requestLoanApproval with batch id 0 or a batch
\* id above currentBatchId, by a provider that passes the role, pause and
\* cooldown checks, fails with InvalidBatch; the call takes no request id from
\* the oracle, writes no context and does not stamp the caller's decryption
\* cooldown.
C12_BatchIdRange ==
    [][\A a \in Addr, b \in 0..MaxBatchId :
          (isProvider[a] /\ ~paused /\ checkDecryptionCooldown(a) = "ok"
                         /\ (b = 0 \/ b > currentBatchId))
          => /\ requestLoanApprovalResult(a, b) = "InvalidBatch"
             /\ requestLoanApproval(a, b)
                => UNCHANGED <<counterRequest, decryptionContexts,
                               lastDecryptionRequestTime, requestedCts>>]_vars

\* A provider whose request for batch 1 would be accepted, while batch ids 0
\* and 2 are refused as out of range.
C12_Witness ==
    \E a \in Addr :
        /\ currentBatchId = 1
        /\ requestLoanApprovalResult(a, 1) = "ok"
        /\ requestLoanApprovalResult(a, 0) = "InvalidBatch"
        /\ requestLoanApprovalResult(a, 2) = "InvalidBatch"

\* All three handles of a record are initialized.
Complete(app) == \A i \in 1..3 : isInitialized(app[i])

\* C13 -- Record completeness before request: requestLoanApproval for a batch
\* id in range whose record has a handle that is not initialized, by a
\* provider that passes the role, pause and cooldown checks, fails with
\* "Ciphertext not initialized" and creates no context; hence every context
\* refers to a batch in range whose three handles were initialized when the
\* request was made.
C13_RecordCompleteness ==
    [][/\ \A a \in Addr, b \in BatchIds :
             (isProvider[a] /\ ~paused /\ checkDecryptionCooldown(a) = "ok"
                            /\ b <= currentBatchId /\ ~Complete(loanApplications[b]))
             => /\ requestLoanApprovalResult(a, b) = "CiphertextNotInitialized"
                /\ requestLoanApproval(a, b)
                   => UNCHANGED <<counterRequest, decryptionContexts>>
       /\ \A r \in RequestIds :
             Issued(r) => /\ decryptionContexts[r].batchId \in 1..currentBatchId
                          /\ Complete(requestedCts[r])
                          /\ decryptionContexts[r].stateHash =
                                hashCiphertexts(requestedCts[r])]_vars

\* Batch 1 was requested over a complete record and then overwritten with an
\* incomplete one, batch 2 never received a submission: both are refused.
C13_Witness ==
    \E a \in Addr :
        /\ Issued(0)
        /\ decryptionContexts[0].batchId = 1
        /\ currentBatchId = 2
        /\ loanApplications[1] = <<1, NoHandle, 1>>
        /\ loanApplications[2] = EmptyApplication
        /\ requestLoanApprovalResult(a, 1) = "CiphertextNotInitialized"
        /\ requestLoanApprovalResult(a, 2) = "CiphertextNotInitialized"

C15_HandleValidation ==
    \A b \in BatchIds :
        /\ submitted[b] = EmptyApplication \/ Complete(submitted[b])
        /\ loanApplications[b] = EmptyApplication \/ Complete(loanApplications[b])

\* C16 -- Guard check order: in submitLoanApplication and requestLoanApproval
\* the role check comes first, the pause check second and the cooldown check
\* third, before the batch checks: a caller that is no provider gets
\* NotProvider, a provider of a paused contract gets Paused, and a provider
\* of an unpaused contract whose cooldown check fails gets that failure,
\* whatever the later checks would say.
C16_GuardOrder ==
    \A a \in Addr, b \in 0..MaxBatchId :
        /\ ~isProvider[a]
           => /\ submitLoanApplicationResult(a) = "NotProvider"
              /\ requestLoanApprovalResult(a, b) = "NotProvider"
        /\ (isProvider[a] /\ paused)
           => /\ submitLoanApplicationResult(a) = "Paused"
              /\ requestLoanApprovalResult(a, b) = "Paused"
        /\ (isProvider[a] /\ ~paused /\ checkSubmissionCooldown(a) # "ok")
           => submitLoanApplicationResult(a) = checkSubmissionCooldown(a)
        /\ (isProvider[a] /\ ~paused /\ checkDecryptionCooldown(a) # "ok")
           => requestLoanApprovalResult(a, b) = checkDecryptionCooldown(a)

\* The contract is paused, no batch is open and both cooldowns are running:
\* alice, no provider, gets NotProvider and the deployer, a provider, Paused.
C16_Witness ==
    /\ paused
    /\ ~batchOpen
    /\ ~isProvider["alice"]
    /\ isProvider[Deployer]
    /\ \A a \in Addr : /\ checkSubmissionCooldown(a) = "CooldownActive"
                       /\ checkDecryptionCooldown(a) = "CooldownActive"
    /\ submitLoanApplicationResult("alice") = "NotProvider"
    /\ requestLoanApprovalResult("alice", 0) = "NotProvider"
    /\ submitLoanApplicationResult(Deployer) = "Paused"
    /\ requestLoanApprovalResult(Deployer, 0) = "Paused"

\* The variables that only the owner administers.
adminState == <<owner, isProvider, paused, cooldownSeconds, currentBatchId, batchOpen>>

\* The step is a call of one of the seven owner-only functions by s.
AdminCall(s) ==
    \/ \E a \in Addr : \/ transferOwnership(s, a)
                       \/ addProvider(s, a)
                       \/ removeProvider(s, a)
    \/ \E p \in BOOLEAN : setPaused(s, p)
    \/ setCooldownSeconds(s, 0)
    \/ openBatch(s)
    \/ closeBatch(s)

\* C17 -- Owner-only administration: transferOwnership, addProvider,
\* removeProvider, setPaused, setCooldownSeconds, openBatch and closeBatch
\* called by anyone but the current owner fail (openBatch and closeBatch with
\* NotOwner) and change nothing; owner, provider set, paused,
\* cooldownSeconds, currentBatchId and batchOpen change only in a step that is
\* a call of one of these functions by the current owner.
C17_OwnerOnly ==
    [][/\ \A s \in Addr :
             s # owner => /\ openBatchResult(s) = "NotOwner"
                          /\ closeBatchResult(s) = "NotOwner"
                          /\ AdminCall(s) => UNCHANGED vars
       /\ adminState' # adminState => AdminCall(owner)]_vars

\* Ownership has passed to alice, who made herself a provider, switched the
\* cooldown off and opened and closed a batch; the deployer is refused.
C17_Witness ==
    /\ owner = "alice"
    /\ isProvider["alice"]
    /\ cooldownSeconds = 0
    /\ currentBatchId = 1
    /\ ~batchOpen
    /\ ~paused
    /\ openBatchResult(Deployer) = "NotOwner"
    /\ closeBatchResult(Deployer) = "NotOwner"
    /\ openBatchResult("alice") # "NotOwner"

\* The step is a call that succeeds, with all of its effects.
SuccessfulCall ==
    \/ AdminCall(owner)
    \/ \E s \in Addr, app \in Applications :
          submitLoanApplicationResult(s) = "ok" /\ submitLoanApplication(s, app)
    \/ \E s \in Addr, b \in BatchIds :
          requestLoanApprovalResult(s, b) = "ok" /\ requestLoanApproval(s, b)
    \/ \E s \in Addr, r \in RequestIds, c \in Cleartexts :
          myCallbackResult(r, c, <<r, c>>) = "ok" /\ myCallback(s, r, c, <<r, c>>)

\* C18 -- All-or-nothing operations: every step that changes anything is one
\* call that succeeds, with all of its state changes and its event; a call
\* that fails changes nothing.  No state shows part of an operation: a request
\* id has been taken from the oracle exactly when its context is stored and
\* its DecryptionRequested event is recorded, and a batch is open only under
\* an id the counter has reached.
C18_AllOrNothing ==
    [][/\ SuccessfulCall
       /\ \A r \in RequestIds :
             /\ Issued(r) <=> decryptionContexts[r] # ZeroContext
             /\ Issued(r) <=> requestedCts[r] # EmptyApplication
       /\ batchOpen => currentBatchId >= 1]_vars

\* After a batch was opened, an application submitted and a request made, a
\* request with batch id 0 and a callback with a short cleartext are refused:
\* all effects of the earlier calls are there, none of the refused ones.
C18_Witness ==
    \E a \in Addr :
        /\ batchOpen
        /\ currentBatchId = 1
        /\ loanApplications[1] # EmptyApplication
        /\ submitted[1] = loanApplications[1]
        /\ Pending(0)
        /\ requestLoanApprovalResult(a, 0) = "InvalidBatch"
        /\ myCallbackResult(0, ShortCleartext, <<0, ShortCleartext>>) = "DecodeError"
        /\ counterRequest = 1
        /\ completedEvents[0] = <<>>

\* Batch b has been closed: a later batch exists, or b is the last batch and
\* no batch is open.
Closed(b) == b < currentBatchId \/ (b = currentBatchId /\ ~batchOpen)

\* C19 -- Closed batches are immutable: the record of batch b changes only in
\* a successful submitLoanApplication step taken while a batch is open and
\* currentBatchId = b; a closed batch is never the open batch again, so its
\* record never changes; and while no batch is open no submitLoanApplication
\* succeeds, a caller that passes the role, pause and cooldown checks getting
\* BatchNotOpen.
C19_ClosedImmutable ==
    [][/\ \A b \in BatchIds :
             /\ loanApplications'[b] # loanApplications[b]
                => /\ batchOpen /\ currentBatchId = b
                   /\ \E s \in Addr, app \in RecordApplications :
                         /\ submitLoanApplicationResult(s) = "ok"
                         /\ submitLoanApplication(s, app)
             /\ Closed(b) => /\ Closed(b)'
                             /\ loanApplications'[b] = loanApplications[b]
       /\ ~batchOpen
          => \A a \in Addr :
                /\ submitLoanApplicationResult(a) # "ok"
                /\ (isProvider[a] /\ ~paused /\ checkSubmissionCooldown(a) = "ok")
                   => submitLoanApplicationResult(a) = "BatchNotOpen"]_vars

\* Batch 1 was closed with one record, batch 2 was filled with another and
\* closed too; a provider's submission is now refused with BatchNotOpen.
C19_Witness ==
    /\ currentBatchId = 2
    /\ ~batchOpen
    /\ loanApplications[1] = <<1, 1, 1>>
    /\ loanApplications[2] = <<1, 1, 2>>
    /\ \E a \in Addr : submitLoanApplicationResult(a) = "BatchNotOpen"

\* C20 -- Replace-on-resubmit: the record stored for batch b always equals
\* the handles of the latest LoanApplicationSubmitted event for b (none: the
\* empty record), whichever provider submitted; and a step that changes the
\* records is a successful submitLoanApplication that writes its three
\* handles at currentBatchId and leaves the other records as they were.
C20_ReplaceOnResubmit ==
    [][/\ \A b \in BatchIds : /\ loanApplications[b] = submitted[b]
                              /\ loanApplications'[b] = submitted'[b]
       /\ loanApplications' # loanApplications
          => \E s \in Addr, app \in RecordApplications :
                /\ submitLoanApplicationResult(s) = "ok"
                /\ submitLoanApplication(s, app)
                /\ loanApplications' = [loanApplications EXCEPT ![currentBatchId] = app]
                /\ \A b \in BatchIds \ {currentBatchId} :
                      loanApplications'[b] = loanApplications[b]]_vars

\* Two providers; batch 1 kept the record it was closed with, and in the open
\* batch 2 a complete application was replaced by an incomplete one after a
\* decryption request had been made over it.
C20_Witness ==
    /\ \A a \in Addr : isProvider[a]
    /\ currentBatchId = 2
    /\ batchOpen
    /\ loanApplications[1] = <<1, 1, 1>>
    /\ Issued(0)
    /\ decryptionContexts[0].batchId = 2
    /\ requestedCts[0] = <<1, 1, 2>>
    /\ loanApplications[2] = <<1, NoHandle, 1>>
    /\ submitted = loanApplications

\* C21 -- Concurrent requests on one batch: every successful requestLoanApproval
\* takes a request id that had no context and stores a context of its own,
\* leaving the others as they were; two contexts for the same batch hold the
\* same hash exactly when the record held the same handles at both requests;
\* while both are pending over the unchanged record the valid callback of
\* each succeeds, and the step that processes one leaves the other pending
\* and its valid callback still succeeding.
C21_ConcurrentRequests ==
    [][/\ \A a \in Addr, b \in BatchIds :
             (requestLoanApprovalResult(a, b) = "ok" /\ requestLoanApproval(a, b))
             => /\ ~Issued(counterRequest)
                /\ decryptionContexts[counterRequest] = ZeroContext
                /\ decryptionContexts'[counterRequest] =
                      [batchId |-> b, stateHash |-> hashCiphertexts(loanApplications[b]),
                       processed |-> FALSE]
                /\ \A r \in RequestIds \ {counterRequest} :
                      decryptionContexts'[r] = decryptionContexts[r]
       /\ \A r1, r2 \in RequestIds :
             (r1 # r2 /\ Issued(r1) /\ Issued(r2)
                 /\ decryptionContexts[r1].batchId = decryptionContexts[r2].batchId)
             => /\ requestedCts[r1] = requestedCts[r2]
                   <=> decryptionContexts[r1].stateHash = decryptionContexts[r2].stateHash
                /\ (Pending(r1) /\ Pending(r2) /\ requestedCts[r1] = requestedCts[r2]
                       /\ RecordOf(r1) = requestedCts[r1])
                   => \A c \in WellFormedCleartexts :
                         /\ myCallbackResult(r1, c, <<r1, c>>) = "ok"
                         /\ myCallbackResult(r2, c, <<r2, c>>) = "ok"
                /\ (decryptionContexts'[r1] # decryptionContexts[r1] /\ Pending(r2))
                   => /\ decryptionContexts'[r2] = decryptionContexts[r2]
                      /\ \A c \in Cleartexts :
                            myCallbackResult(r2, c, <<r2, c>>)'
                               = myCallbackResult(r2, c, <<r2, c>>)]_vars

\* Both providers requested batch 1, at different times, over the same
\* record: the later request has been processed, the earlier one is pending
\* and its valid callback succeeds.
C21_Witness ==
    /\ counterRequest = 2
    /\ lastDecryptionRequestTime[Deployer] >= 1
    /\ lastDecryptionRequestTime["alice"] >= 1
    /\ lastDecryptionRequestTime[Deployer] # lastDecryptionRequestTime["alice"]
    /\ decryptionContexts[0].batchId = decryptionContexts[1].batchId
    /\ decryptionContexts[0].stateHash = decryptionContexts[1].stateHash
    /\ decryptionContexts[1].processed
    /\ Pending(0)
    /\ myCallbackResult(0, GoodCleartext, <<0, GoodCleartext>>) = "ok"

\* C22 -- The callback is caller-independent: a step that is myCallback with
\* given request id, cleartext and proof by one caller is the same step by
\* every other caller, whatever their roles and cooldowns; such a step leaves
\* both cooldown timestamps of every address unchanged and is a call whose
\* outcome, computed from request id, cleartext, proof and state alone, is
\* success.
C22_CallerIndependence ==
    [][completedEvents' # completedEvents
       => /\ UNCHANGED <<lastSubmissionTime, lastDecryptionRequestTime>>
          /\ \A r \in RequestIds, c \in Cleartexts : \A p \in ProofInputs(r, c) :
                (\E s \in Addr : myCallback(s, r, c, p))
                => /\ myCallbackResult(r, c, p) = "ok"
                   /\ \A s \in Addr : myCallback(s, r, c, p)]_vars

\* A request has been resolved and another is pending while alice is neither
\* owner nor provider and the deployer's decryption cooldown is running: the
\* valid callback for the pending request succeeds.
C22_Witness ==
    /\ decryptionContexts[1].processed
    /\ Pending(0)
    /\ owner # "alice"
    /\ ~isProvider["alice"]
    /\ checkDecryptionCooldown(Deployer) = "CooldownActive"
    /\ myCallbackResult(0, GoodCleartext, <<0, GoodCleartext>>) = "ok"

\* C23 -- Pause blocks the guarded operations: while paused, openBatch and
\* closeBatch by the owner and submitLoanApplication and requestLoanApproval
\* by a provider fail with Paused, whatever the batch state, the cooldowns
\* and the batch id, and change nothing; so a step taken while paused opens
\* and closes no batch, writes no record, creates no context and changes no
\* cooldown timestamp.
C23_PauseBlocks ==
    [][paused
       => /\ openBatchResult(owner) = "Paused"
          /\ closeBatchResult(owner) = "Paused"
          /\ \A a \in Addr :
                isProvider[a]
                => /\ submitLoanApplicationResult(a) = "Paused"
                   /\ \A b \in 0..MaxBatchId : requestLoanApprovalResult(a, b) = "Paused"
          /\ \A s \in Addr :
                (\/ openBatch(s)
                 \/ closeBatch(s)
                 \/ submitLoanApplication(s, <<1, 1, 1>>)
                 \/ \E b \in 0..MaxBatchId : requestLoanApproval(s, b))
                => UNCHANGED vars
          /\ UNCHANGED <<currentBatchId, batchOpen, loanApplications, submitted,
                         counterRequest, decryptionContexts, requestedCts,
                         lastSubmissionTime, lastDecryptionRequestTime>>]_vars

\* The contract is paused while a batch is open with a record in it and a
\* provider has passed both cooldowns: every guarded call is refused.
C23_Witness ==
    \E a \in Addr :
        /\ paused
        /\ batchOpen
        /\ loanApplications[1] = <<1, 1, 1>>
        /\ isProvider[a]
        /\ checkSubmissionCooldown(a) = "ok"
        /\ checkDecryptionCooldown(a) = "ok"
        /\ submitLoanApplicationResult(a) = "Paused"
        /\ requestLoanApprovalResult(a, 1) = "Paused"
        /\ openBatchResult(owner) = "Paused"
        /\ closeBatchResult(owner) = "Paused"

\* C24 (as stated) -- a completing myCallback step leads to the same state
\* whichever cleartext is delivered with its valid proof.
C24_AnyCleartextSameState ==
    [][completedEvents' # completedEvents
       => \A r \in RequestIds, c1 \in Cleartexts :
             (\E s \in Addr : myCallback(s, r, c1, <<r, c1>>))
             => \A c2 \in Cleartexts, s \in Addr : myCallback(s, r, c2, <<r, c2>>)]_vars

\* C24 -- Cleartext is never stored: the outcome of myCallback with a valid
\* proof depends on the cleartext only through whether it can be decoded (it
\* is that of the well-formed, respectively of the short, cleartext); a
\* completing step changes nothing in storage but the processed flag of its
\* context and is the same step for every decodable cleartext delivered with
\* its valid proof, while the DecryptionCompleted events of two well-formed
\* cleartexts with different values differ.
C24_CleartextNotStored ==
    [][/\ \A r \in RequestIds, c1 \in Cleartexts :
             \A c2 \in {GoodCleartext, ShortCleartext} :
                (Decodable(c1) <=> Decodable(c2))
                => myCallbackResult(r, c1, <<r, c1>>) = myCallbackResult(r, c2, <<r, c2>>)
       /\ completedEvents' # completedEvents
          => \A r \in RequestIds, c1 \in Cleartexts :
                (\E s \in Addr : myCallback(s, r, c1, <<r, c1>>))
                => /\ storage' = <<owner, isProvider, paused, cooldownSeconds,
                                   lastSubmissionTime, lastDecryptionRequestTime,
                                   currentBatchId, batchOpen, loanApplications,
                                   [decryptionContexts EXCEPT ![r].processed = TRUE]>>
                   /\ \A c2 \in Cleartexts, s \in Addr :
                         Decodable(c2) => myCallback(s, r, c2, <<r, c2>>)
                   /\ \A c2 \in WellFormedCleartexts \ {c1} :
                         WellFormed(c1)
                         => DecryptionCompleted(r, c1) # DecryptionCompleted(r, c2)]_vars

\* A request has been resolved: its context is processed, the record it was
\* made over is still stored and holds handles, not the decoded values.
C24_Witness ==
    /\ decryptionContexts[0].processed
    /\ completedEvents[0] = <<1>>
    /\ loanApplications[1] = requestedCts[0]
    /\ loanApplications[1] \in Applications
    /\ myCallbackResult(0, GoodCleartext, <<0, GoodCleartext>>) = "ReplayAttempt"

\* The i-th event of a log in which BatchOpened and BatchClosed alternate,
\* starting with BatchOpened(1), each BatchClosed(b) following BatchOpened(b).
AlternatingEvent(i) ==
    IF i % 2 = 1 THEN <<"BatchOpened", (i + 1) \div 2>> ELSE <<"BatchClosed", i \div 2>>

\* C25 -- Event ordering: a step that emits DecryptionCompleted(r, b) comes
\* after exactly one DecryptionRequested(r, b), none having completed r
\* before; a step that emits DecryptionRequested(r, b) uses a request id no
\* earlier request had and comes after a LoanApplicationSubmitted and a
\* BatchOpened event for b; the log of batch events only grows, and in it
\* BatchOpened and BatchClosed alternate strictly, starting with
\* BatchOpened, every BatchClosed(b) directly after BatchOpened(b).
C25_EventOrdering ==
    [][/\ \A r \in RequestIds :
             completedEvents'[r] # completedEvents[r]
             => /\ completedEvents[r] = <<>>
                /\ Issued(r)
                /\ requestedCts[r] # EmptyApplication
                /\ completedEvents'[r] = <<decryptionContexts[r].batchId>>
       /\ counterRequest' # counterRequest
          => LET r == counterRequest
                 b == decryptionContexts'[r].batchId
             IN  /\ counterRequest' = r + 1
                 /\ requestedCts[r] = EmptyApplication
                 /\ requestedCts'[r] # EmptyApplication
                 /\ submitted[b] # EmptyApplication
                 /\ \E i \in 1..Len(batchLog) : batchLog[i] = <<"BatchOpened", b>>
       /\ Len(batchLog') >= Len(batchLog)
       /\ SubSeq(batchLog', 1, Len(batchLog)) = batchLog
       /\ \A i \in 1..Len(batchLog') : batchLog'[i] = AlternatingEvent(i)]_vars

\* Batch 1 was opened, filled and closed and batch 2 was opened; of the two
\* decryption requests made the first, over batch 1, has been resolved.
C25_Witness ==
    /\ batchLog = <<<<"BatchOpened", 1>>, <<"BatchClosed", 1>>, <<"BatchOpened", 2>>>>
    /\ submitted[1] # EmptyApplication
    /\ Issued(0)
    /\ Issued(1)
    /\ decryptionContexts[0].batchId = 1
    /\ completedEvents[0] = <<1>>
    /\ completedEvents[1] = <<>>

\* C26 -- No expiry and no cancellation: while a context is pending, a step
\* that changes it is a successful myCallback for its own request id, so
\* block time, pause, role changes, closing its batch, opening later batches
\* and other calls leave it pending with its batch id and hash; the outcome
\* of its valid callback changes only in a step that writes a record or
\* processes it; and over the unchanged record that callback succeeds at
\* whatever time it arrives.
C26_NoExpiry ==
    [][\A r \in RequestIds :
          Pending(r)
          => /\ decryptionContexts'[r] # decryptionContexts[r]
                => /\ decryptionContexts'[r] =
                         [decryptionContexts[r] EXCEPT !.processed = TRUE]
                   /\ myCallbackResult(r, GoodCleartext, <<r, GoodCleartext>>) = "ok"
                   /\ \E s \in Addr :
                         myCallback(s, r, GoodCleartext, <<r, GoodCleartext>>)
             /\ myCallbackResult(r, GoodCleartext, <<r, GoodCleartext>>)'
                   # myCallbackResult(r, GoodCleartext, <<r, GoodCleartext>>)
                => (loanApplications' # loanApplications \/ decryptionContexts'[r].processed)
             /\ RecordOf(r) = requestedCts[r]
                => myCallbackResult(r, GoodCleartext, <<r, GoodCleartext>>) = "ok"]_vars

\* A request over batch 1 is still pending at the latest time explored:
\* batch 1 and a later batch have been closed, the contract is paused and no
\* address is a provider any more; its valid callback succeeds.
C26_Witness ==
    /\ Pending(0)
    /\ decryptionContexts[0].batchId = 1
    /\ now = MaxTime
    /\ currentBatchId = 2
    /\ ~batchOpen
    /\ paused
    /\ \A a \in Addr : ~isProvider[a]
    /\ myCallbackResult(0, GoodCleartext, <<0, GoodCleartext>>) = "ok"

\* C27 -- Role mutations are idempotent: each of addProvider(a),
\* removeProvider(a), setPaused(v) and setCooldownSeconds(n) by the owner
\* leads to a state (a is a provider, a is no provider, paused = v,
\* cooldownSeconds = n) in which the same call by the owner changes nothing,
\* and transferOwnership by the owner to itself changes nothing; addProvider
\* of a provider and removeProvider of a non-provider change nothing and
\* emit no event, ProviderAdded and ProviderRemoved being emitted only in a
\* step that changes the role of that address.  (The calls are looked for
\* among the steps that change a variable the owner administers or emit a
\* provider event: the five functions write nothing else.)
C27_IdempotentRoleMutations ==
    [][/\ \A a \in Addr :
             providerEvents'[a] # providerEvents[a] => isProvider'[a] # isProvider[a]
       /\ (adminState' # adminState \/ providerEvents' # providerEvents)
          => /\ \A a \in Addr :
                   /\ addProvider(owner, a) => isProvider'[a]
                   /\ (isProvider[a] /\ addProvider(owner, a)) => UNCHANGED vars
                   /\ removeProvider(owner, a) => ~isProvider'[a]
                   /\ (~isProvider[a] /\ removeProvider(owner, a)) => UNCHANGED vars
             /\ \A v \in BOOLEAN :
                   /\ setPaused(owner, v) => paused' = v
                   /\ (paused = v /\ setPaused(owner, v)) => UNCHANGED vars
             /\ \A n \in CooldownInputs :
                   /\ setCooldownSeconds(owner, n) => cooldownSeconds' = n
                   /\ (cooldownSeconds = n /\ setCooldownSeconds(owner, n))
                      => UNCHANGED vars
             /\ transferOwnership(owner, owner) => UNCHANGED vars]_vars

\* Ownership has passed to alice, who is a provider after one ProviderAdded
\* event; the deployer is none, with as many ProviderRemoved as ProviderAdded
\* events; the contract is paused under a cooldown of one second.
C27_Witness ==
    /\ owner = "alice"
    /\ isProvider["alice"]
    /\ providerEvents["alice"] = 1
    /\ ~isProvider[Deployer]
    /\ providerEvents[Deployer] = 0
    /\ paused
    /\ cooldownSeconds = 1

\* C28 -- Pause does not gate administration or the callback: in every
\* paused state setPaused(false) by the owner takes effect, and so do
\* addProvider, removeProvider, setCooldownSeconds and transferOwnership by
\* the owner; and myCallback by any caller with the valid payload of a
\* pending request over an unchanged record sets processed and emits
\* DecryptionCompleted.
C28_PauseDoesNotGate ==
    paused
    => /\ ENABLED (setPaused(owner, FALSE) /\ ~paused')
       /\ \A a \in Addr :
             /\ ENABLED (addProvider(owner, a) /\ isProvider'[a])
             /\ ENABLED (removeProvider(owner, a) /\ ~isProvider'[a])
             /\ ENABLED (transferOwnership(owner, a) /\ owner' = a)
       /\ ENABLED (setCooldownSeconds(owner, 0) /\ cooldownSeconds' = 0)
       /\ \A r \in RequestIds :
             (Pending(r) /\ RecordOf(r) = requestedCts[r])
             => \A s \in Addr :
                   ENABLED (/\ myCallback(s, r, GoodCleartext, <<r, GoodCleartext>>)
                            /\ decryptionContexts'[r].processed
                            /\ completedEvents'[r] = <<decryptionContexts[r].batchId>>)

\* The contract is paused under alice as owner while a request is pending
\* over an unchanged record.
C28_Witness ==
    /\ paused
    /\ owner = "alice"
    /\ Pending(0)
    /\ RecordOf(0) = requestedCts[0]
    /\ myCallbackResult(0, GoodCleartext, <<0, GoodCleartext>>) = "ok"

\* The step is a call of one of the seven owner-only functions by s, the new
\* owner of a hand-over being any address value.
OwnerOnlyCall(s) ==
    \/ \E n \in NewOwners : transferOwnership(s, n)
    \/ \E a \in Addr : addProvider(s, a) \/ removeProvider(s, a)
    \/ \E p \in BOOLEAN : setPaused(s, p)
    \/ setCooldownSeconds(s, 0)
    \/ openBatch(s)
    \/ closeBatch(s)

\* C29 -- Single owner and exclusive hand-over: exactly one address value
\* passes the owner check, at first the deployer; a step that changes the
\* owner is transferOwnership(n) by the owner, sets the owner to n and
\* changes nothing else, and afterwards the previous owner is refused
\* (openBatch and closeBatch with NotOwner), as is every caller but the
\* owner in any owner-only call; n may be the zero address, and once the
\* owner is the zero address no step changes the owner, the provider set,
\* the pause flag, the cooldown or the batch state again.
C29_ExclusiveHandOver ==
    /\ owner = Deployer
    /\ [][/\ Cardinality({n \in NewOwners : onlyOwner(n)}) = 1
          /\ \A s \in Addr :
                s # owner => /\ openBatchResult(s) = "NotOwner"
                             /\ closeBatchResult(s) = "NotOwner"
                             /\ OwnerOnlyCall(s) => UNCHANGED vars
          /\ owner' # owner
             => /\ transferOwnership(owner, owner')
                /\ UNCHANGED <<isProvider, paused, cooldownSeconds, lastSubmissionTime,
                               lastDecryptionRequestTime, currentBatchId, batchOpen,
                               loanApplications, decryptionContexts, now, counterRequest,
                               history>>
                /\ \A s \in Addr :
                      (s = owner)
                      => /\ openBatchResult(s)' = "NotOwner"
                         /\ closeBatchResult(s)' = "NotOwner"
          /\ owner = ZeroAddress => adminState' = adminState]_vars

\* Ownership went to the zero address while the contract was paused with a
\* batch open: both callers are refused.
C29_Witness ==
    /\ owner = ZeroAddress
    /\ paused
    /\ batchOpen
    /\ \A s \in Addr : /\ openBatchResult(s) = "NotOwner"
                       /\ closeBatchResult(s) = "NotOwner"

\* C30 -- Structural invariant: an open batch has an id of at least 1; a
\* record that is not empty is stored under an id in 1..currentBatchId; a
\* context that exists has a batch id in 1..currentBatchId and the hash of
\* the handles its batch's record held when the request was made, so that
\* myCallback fails with InvalidBatch exactly for request ids without a
\* context; and each submission and decryption-request timestamp lies in
\* 0..now and never decreases.
C30_StructuralInvariant ==
    [][/\ batchOpen => currentBatchId >= 1
       /\ \A b \in BatchIds :
             loanApplications[b] # EmptyApplication => b \in 1..currentBatchId
       /\ \A r \in RequestIds :
             /\ decryptionContexts[r] # ZeroContext
                => /\ decryptionContexts[r].batchId \in 1..currentBatchId
                   /\ decryptionContexts[r].stateHash = hashCiphertexts(requestedCts[r])
             /\ \A c \in {GoodCleartext, ShortCleartext} : \A p \in ProofInputs(r, c) :
                   myCallbackResult(r, c, p) = "InvalidBatch"
                      <=> decryptionContexts[r] = ZeroContext
       /\ \A a \in Addr :
             /\ lastSubmissionTime[a] \in 0..now
             /\ lastDecryptionRequestTime[a] \in 0..now
             /\ lastSubmissionTime'[a] >= lastSubmissionTime[a]
             /\ lastDecryptionRequestTime'[a] >= lastDecryptionRequestTime[a]]_vars

\* Two batches with records, a context for batch 1, a request id without a
\* context, and a provider that submitted and requested at time 1, before
\* the current block time.
C30_Witness ==
    \E a \in Addr :
        /\ currentBatchId = 2
        /\ batchOpen
        /\ loanApplications[1] # EmptyApplication
        /\ loanApplications[2] # EmptyApplication
        /\ decryptionContexts[0].batchId = 1
        /\ decryptionContexts[1] = ZeroContext
        /\ myCallbackResult(1, GoodCleartext, <<1, GoodCleartext>>) = "InvalidBatch"
        /\ lastDecryptionRequestTime[a] = 1
        /\ lastSubmissionTime[a] = 1
        /\ now = 2

\* The outcome line 73 / line 80 gives for timestamp last: the sum
\* last + cooldownSeconds above the largest uint256 is an arithmetic failure,
\* otherwise the call is rate limited exactly when now is below the sum.
CooldownOutcome(last) ==
    IF last + cooldownSeconds > MaxUint THEN "Panic"
    ELSE IF now < last + cooldownSeconds THEN "CooldownActive"
    ELSE "ok"

\* The result of a call by a provider on a contract that is not paused stops
\* at the cooldown check exactly when that check does not pass.
StopsAtCooldown(result, last) ==
    /\ result = "CooldownActive" <=> CooldownOutcome(last) = "CooldownActive"
    /\ result = "Panic" <=> CooldownOutcome(last) = "Panic"
    /\ last = 0 => (result = "CooldownActive" <=> now < cooldownSeconds)
    /\ cooldownSeconds = 0 => result \notin {"CooldownActive", "Panic"}

\* C31 -- Cooldown arithmetic: the contract starts with cooldownSeconds = 60
\* and every timestamp 0.  A submitLoanApplication / requestLoanApproval by a
\* provider a on a contract that is not paused fails with CooldownActive
\* exactly when now < last[a] + cooldownSeconds for the matching timestamp
\* last[a] and the current cooldownSeconds, and with an arithmetic failure
\* exactly when last[a] + cooldownSeconds exceeds the largest uint256; with
\* last[a] = 0 it is rate limited iff now < cooldownSeconds, and with
\* cooldownSeconds = 0 it is never rate limited.  last[a] changes only in a
\* successful operation of that class by a, to now; cooldownSeconds changes
\* only in setCooldownSeconds by the owner, which leaves every timestamp as
\* it is, so the new value applies to the existing timestamps.
C31_CooldownArithmetic ==
    /\ cooldownSeconds = DefaultCooldown
    /\ \A a \in Addr : lastSubmissionTime[a] = 0 /\ lastDecryptionRequestTime[a] = 0
    /\ [](\A a \in Addr :
            (isProvider[a] /\ ~paused)
            => /\ StopsAtCooldown(submitLoanApplicationResult(a), lastSubmissionTime[a])
               /\ \A b \in 0..MaxBatchId :
                     StopsAtCooldown(requestLoanApprovalResult(a, b),
                                     lastDecryptionRequestTime[a]))
    /\ [][/\ lastSubmissionTime' # lastSubmissionTime
             => \E a \in Addr :
                   /\ submitLoanApplicationResult(a) = "ok"
                   /\ lastSubmissionTime' = [lastSubmissionTime EXCEPT ![a] = now]
          /\ lastDecryptionRequestTime' # lastDecryptionRequestTime
             => \E a \in Addr :
                   /\ \E b \in BatchIds : requestLoanApprovalResult(a, b) = "ok"
                   /\ lastDecryptionRequestTime' =
                         [lastDecryptionRequestTime EXCEPT ![a] = now]
          /\ cooldownSeconds' # cooldownSeconds
             => /\ \E n \in CooldownInputs : setCooldownSeconds(owner, n)
                /\ UNCHANGED <<lastSubmissionTime, lastDecryptionRequestTime, now>>]_vars

\* A provider that submitted at time 1 and has not requested a decryption,
\* at time 2 under the largest cooldown: its submission aborts with an
\* arithmetic failure while its first request is rate limited.
C31_Witness ==
    \E a \in Addr :
        /\ isProvider[a]
        /\ ~paused
        /\ cooldownSeconds = MaxUint
        /\ now = 2
        /\ lastSubmissionTime[a] = 1
        /\ lastDecryptionRequestTime[a] = 0
        /\ counterRequest = 0
        /\ submitLoanApplicationResult(a) = "Panic"
        /\ requestLoanApprovalResult(a, 1) = "CooldownActive"

\* The record of the batch of request r no longer holds the handles the
\* request was made over.
HandlesChanged(r) ==
    /\ decryptionContexts[r].batchId \in BatchIds
    /\ RecordOf(r) # requestedCts[r]

\* C32 -- Liveness of resolution: with an oracle that eventually delivers,
\* for each pending request, a callback with a proof valid for a well-formed
\* cleartext, every pending context is eventually processed unless a
\* submission has changed the handles of its batch since the request; and a
\* pending context whose batch is closed with other handles stays pending in
\* every later step, each delivery for it failing with StateMismatch.
C32_LivenessOfResolution ==
    /\ \A r \in RequestIds :
          Pending(r) ~> (decryptionContexts[r].processed \/ HandlesChanged(r))
    /\ [][\A r \in RequestIds :
             (Pending(r) /\ Closed(decryptionContexts[r].batchId) /\ HandlesChanged(r))
             => /\ \A c \in WellFormedCleartexts :
                      myCallbackResult(r, c, <<r, c>>) = "StateMismatch"
                /\ Pending(r)'
                /\ Closed(decryptionContexts[r].batchId)'
                /\ HandlesChanged(r)']_vars

\* A request made over the handles <<1, 1, 1>> of batch 1, which was then
\* resubmitted with other handles and closed: the context is pending and a
\* delivery with a valid proof fails with StateMismatch.
C32_Witness ==
    /\ Pending(0)
    /\ decryptionContexts[0].batchId = 1
    /\ requestedCts[0] = <<1, 1, 1>>
    /\ loanApplications[1] = <<1, 1, 2>>
    /\ Closed(1)
    /\ myCallbackResult(0, GoodCleartext, <<0, GoodCleartext>>) = "StateMismatch"
====
